---- MODULE Spec2Model ----
(***************************************************************************)
(* A model of the article service of src/server.js: the Article           *)
(* collection, the article routes (list, create, update, delete), the     *)
(* date parsing and rendering, and the image upload route.                 *)
(*                                                                         *)
(* src/server.js holds an earlier (lines 1-137) and a later (lines        *)
(* 139-351) definition of the article routes.  The later set, with the    *)
(* upload route and the Date-typed `date`, is modelled in full.  Of the   *)
(* earlier set the GET handler is modelled as well, because it orders its *)
(* result by another key than the later one.                               *)
(*                                                                         *)
(* A JSON object or a stored document is a function from its keys to      *)
(* their values: an omitted key is a key that is not in the DOMAIN.        *)
(* Instants are minutes since 1970-01-01T00:00Z.                           *)
(***************************************************************************)
EXTENDS Integers, Sequences, FiniteSets, TLC

VARIABLES
    tz,        \* the server's timezone: minutes east of UTC
    store,     \* the Article collection: a set of documents
    nextId,    \* the number of ObjectIds handed out so far
    now,       \* the server's clock
    last,      \* the last article request handled and its response
    uploads,   \* the upload requests in flight, each with its position
    hosted     \* the number of images the media host has stored

vars == <<tz, store, nextId, now, last, uploads, hosted>>

articleVars == <<tz, store, nextId, now, last>>
uploadVars == <<uploads, hosted>>

\* Bounds of the model.
MaxArticles == 2
MaxUploads == 2

Range(s) == {s[i] : i \in DOMAIN s}

Has(obj, key) == key \in DOMAIN obj

EmptyObject == [k \in {} |-> 0]

Pick(obj, keys) == [k \in (keys \cap DOMAIN obj) |-> obj[k]]

(***************************************************************************)
(* Calendar arithmetic of the Date object: the day number of a civil date *)
(* and back (proleptic Gregorian calendar, floor division).                *)
(***************************************************************************)
MinutesPerDay == 24 * 60

DaysFromCivil(y, m, d) ==
    LET yy == IF m <= 2 THEN y - 1 ELSE y
        era == yy \div 400
        yoe == yy - era * 400
        mp == IF m > 2 THEN m - 3 ELSE m + 9
        doy == (153 * mp + 2) \div 5 + d - 1
        doe == yoe * 365 + yoe \div 4 - yoe \div 100 + doy
    IN  era * 146097 + doe - 719468

CivilFromDays(z) ==
    LET zz == z + 719468
        era == zz \div 146097
        doe == zz - era * 146097
        yoe == (doe - doe \div 1460 + doe \div 36524 - doe \div 146096) \div 365
        doy == doe - (365 * yoe + yoe \div 4 - yoe \div 100)
        mp == (5 * doy + 2) \div 153
        d == doy - (153 * mp + 2) \div 5 + 1
        m == IF mp < 10 THEN mp + 3 ELSE mp - 9
        y == yoe + era * 400 + (IF m <= 2 THEN 1 ELSE 0)
    IN  [year |-> y, month |-> m, day |-> d]

\* new Date(year, monthIndex, day): a year of 0..99 means 1900 + year, a
\* month index outside 0..11 carries into the year, and the day counts on
\* from the first of the month; the result is that local midnight.
LocalDate(zone, year, monthIndex, day) ==
    LET yr == IF 0 <= year /\ year <= 99 THEN 1900 + year ELSE year
        ym == yr + monthIndex \div 12
        mn == monthIndex % 12
        days == DaysFromCivil(ym, mn + 1, 1) + day - 1
    IN  days * MinutesPerDay - zone

\* new Date(dateStr) of a date-only ISO string: midnight UTC of that day,
\* the parse that parseDate is written to avoid.
ParseDateUTC(zone, dateStr) ==
    DaysFromCivil(dateStr[1], dateStr[2], dateStr[3]) * MinutesPerDay

\* parseDate of the create and update handlers, past its `!dateStr` test.
\* A YYYY-MM-DD string is the triple of numbers that
\* dateStr.split('-').map(Number) yields.
ParseDate(zone, dateStr) ==
    LocalDate(zone, dateStr[1], dateStr[2] - 1, dateStr[3])

MonthNames ==
    <<"January", "February", "March", "April", "May", "June", "July",
      "August", "September", "October", "November", "December">>

\* toLocaleDateString('en-US', {month: 'long', day: '2-digit', year: 'numeric'}):
\* "March 05, 2024" is [month |-> "March", day |-> 5, year |-> 2024].
FormatDate(zone, instant) ==
    LET c == CivilFromDays((instant + zone) \div MinutesPerDay)
    IN  [month |-> MonthNames[c.month], day |-> c.day, year |-> c.year]

(***************************************************************************)
(* The Article schema.                                                     *)
(***************************************************************************)
DefaultImage ==
    "https://images.unsplash.com/photo-1576091160550-217359f42f8c?q=80&w=2070&auto=format&fit=crop"
DefaultCategory == "General"
DefaultSites == <<"rbiomeds">>

ObjectId(n) == <<"ObjectId", n>>

\* A path parameter that is no ObjectId, such as /api/articles/abc.
MalformedId == <<"abc">>

\* The cast of the path parameter to the _id path: it fails on anything
\* that is not an ObjectId.
IsObjectId(id) == Len(id) = 2 /\ id[1] = "ObjectId"

\* `required: true` of a String path: missing and '' both fail.
RequiredOk(doc, key) == Has(doc, key) /\ doc[key] # ""

Validates(doc) == RequiredOk(doc, "title") /\ RequiredOk(doc, "description")

\* The toJSON transform, applied to the hydrated document (hydration fills
\* a missing `sites` with the schema default).
ToJSON(zone, doc) ==
    LET hydrated == doc @@ [sites |-> DefaultSites]
    IN  [id |-> doc._id, date |-> FormatDate(zone, doc.date)]
            @@ Pick(hydrated, DOMAIN hydrated \ {"_id"})

\* The earlier toJSON transform: `date` is passed through as stored.
ToJSONEarlier(zone, doc) ==
    LET hydrated == doc @@ [sites |-> DefaultSites]
    IN  [id |-> doc._id] @@ Pick(hydrated, DOMAIN hydrated \ {"_id"})

FindById(id) == {d \in store : d._id = id}

(***************************************************************************)
(* GET /api/articles: the filter of a site selector, the documents a      *)
(* filter matches, and the sorted result.                                  *)
(***************************************************************************)
\* Without the `$exists: false` clause of the "rbiomeds" branch.
QueryForNoLegacy(query) ==
    IF ~Has(query, "site") THEN [kind |-> "everything"]
    ELSE IF query.site = "both"
         THEN [kind |-> "all", values |-> {"rbiomeds", "abc-international"}]
         ELSE [kind |-> "eq", value |-> query.site]

QueryFor(query) ==
    IF ~Has(query, "site") THEN [kind |-> "everything"]
    ELSE IF query.site = "rbiomeds"
         THEN [kind |-> "or",
               clauses |-> {[kind |-> "eq", value |-> "rbiomeds"],
                            [kind |-> "exists", value |-> FALSE]}]
    ELSE IF query.site = "abc-international"
         THEN [kind |-> "eq", value |-> "abc-international"]
    ELSE IF query.site = "both"
         THEN [kind |-> "all", values |-> {"rbiomeds", "abc-international"}]
    ELSE [kind |-> "eq", value |-> query.site]

\* {sites: {$in: values}}: some value is an element of the array.
MatchesIn(doc, values) ==
    Has(doc, "sites") /\ \E v \in values : v \in Range(doc.sites)

\* {sites: {$all: values}}: every value is an element of the array.
MatchesAll(doc, values) ==
    Has(doc, "sites") /\ \A v \in values : v \in Range(doc.sites)

RECURSIVE Matches(_, _)
Matches(doc, filter) ==
    CASE filter.kind = "everything" -> TRUE
      [] filter.kind = "eq" -> Has(doc, "sites") /\ filter.value \in Range(doc.sites)
      [] filter.kind = "exists" -> Has(doc, "sites") = filter.value
      [] filter.kind = "all" -> MatchesAll(doc, filter.values)
      [] filter.kind = "or" -> \E c \in filter.clauses : Matches(doc, c)

\* sort({k1: -1, k2: -1, ...}): a sorts strictly before b.
RECURSIVE SortsBefore(_, _, _)
SortsBefore(a, b, keys) ==
    IF keys = <<>> THEN FALSE
    ELSE LET k == Head(keys)
         IN  IF a[k] > b[k] THEN TRUE
             ELSE IF a[k] < b[k] THEN FALSE
             ELSE SortsBefore(a, b, Tail(keys))

\* Article.find(filter).sort(keys): every order of the matching documents
\* that the sort allows (documents equal in every key come in any order).
Find(filter, keys) ==
    LET found == {d \in store : Matches(d, filter)}
        n == Cardinality(found)
    IN  {s \in [1..n -> found] :
            /\ \A d \in found : \E i \in 1..n : s[i] = d
            /\ \A i, j \in 1..n : i < j => ~SortsBefore(s[j], s[i], keys)}

ListArticles(query) ==
    /\ \E s \in Find(QueryFor(query), <<"date", "createdAt">>) :
          last' = [op |-> "list", route |-> "later", query |-> query,
                   status |-> 200,
                   result |-> [i \in DOMAIN s |-> ToJSON(tz, s[i])]]
    /\ UNCHANGED <<tz, store, nextId, now, uploadVars>>

ListArticlesEarlier(query) ==
    /\ \E s \in Find(QueryFor(query), <<"createdAt">>) :
          last' = [op |-> "list", route |-> "earlier", query |-> query,
                   status |-> 200,
                   result |-> [i \in DOMAIN s |-> ToJSONEarlier(tz, s[i])]]
    /\ UNCHANGED <<tz, store, nextId, now, uploadVars>>

(***************************************************************************)
(* POST /api/articles                                                      *)
(***************************************************************************)
\* `value || undefined` followed by the schema default.
OrDefault(body, key, default) ==
    IF Has(body, key) /\ body[key] # "" THEN body[key] ELSE default

\* With an empty `sites` where the body has none.
NewArticleEmptySites(zone, clock, id, body) ==
    Pick(body, {"title", "description"})
        @@ [_id |-> id,
            image |-> OrDefault(body, "image", DefaultImage),
            category |-> OrDefault(body, "category", DefaultCategory),
            sites |-> IF Has(body, "sites") THEN body.sites ELSE <<>>,
            date |-> IF Has(body, "date") THEN ParseDate(zone, body.date) ELSE clock,
            createdAt |-> clock]

NewArticle(zone, clock, id, body) ==
    Pick(body, {"title", "description"})
        @@ [_id |-> id,
            image |-> OrDefault(body, "image", DefaultImage),
            category |-> OrDefault(body, "category", DefaultCategory),
            sites |-> IF Has(body, "sites") THEN body.sites ELSE DefaultSites,
            date |-> IF Has(body, "date") THEN ParseDate(zone, body.date) ELSE clock,
            createdAt |-> clock]

CreateArticle(body) ==
    /\ nextId < MaxArticles
    /\ LET doc == NewArticle(tz, now, ObjectId(nextId + 1), body)
       IN  IF Validates(doc)
           THEN /\ store' = store \cup {doc}
                /\ nextId' = nextId + 1
                /\ now' = now + 1
                /\ last' = [op |-> "create", body |-> body, status |-> 201,
                            result |-> ToJSON(tz, doc)]
           ELSE /\ last' = [op |-> "create", body |-> body, status |-> 500,
                            result |-> [error |-> "Failed to create article"]]
                /\ UNCHANGED <<store, nextId, now>>
    /\ UNCHANGED <<tz, uploadVars>>

(***************************************************************************)
(* PUT /api/articles/:id                                                   *)
(***************************************************************************)
\* With `sites` set only when the body has it.
UpdateDataKeepSites(zone, body) ==
    Pick(body, {"title", "description", "image", "category", "sites"})
        @@ (IF Has(body, "date") THEN [date |-> ParseDate(zone, body.date)]
            ELSE EmptyObject)

\* updateData: the keys of the body that are undefined are not sent.
UpdateData(zone, body) ==
    Pick(body, {"title", "description", "image", "category"})
        @@ [sites |-> IF Has(body, "sites") THEN body.sites ELSE DefaultSites]
        @@ (IF Has(body, "date") THEN [date |-> ParseDate(zone, body.date)]
            ELSE EmptyObject)

\* A replacement of the whole document, the schema defaults applied anew.
ReplaceDocument(doc, updateData) ==
    updateData @@ [_id |-> doc._id, title |-> doc.title,
                   description |-> doc.description, image |-> DefaultImage,
                   category |-> DefaultCategory, date |-> now, createdAt |-> now]

\* findByIdAndUpdate's $set of updateData: the other paths are kept.
ApplyUpdate(doc, updateData) == updateData @@ doc

UpdateArticle(id, body) ==
    /\ IF ~IsObjectId(id)
       THEN /\ last' = [op |-> "update", id |-> id, body |-> body, before |-> {},
                        status |-> 500,
                        result |-> [error |-> "Failed to update article"]]
            /\ UNCHANGED store
       ELSE LET found == FindById(id)
            IN  IF found = {}
                THEN /\ last' = [op |-> "update", id |-> id, body |-> body,
                                 before |-> {}, status |-> 404,
                                 result |-> [error |-> "Article not found"]]
                     /\ UNCHANGED store
                ELSE LET doc == CHOOSE d \in found : TRUE
                         updated == ApplyUpdate(doc, UpdateData(tz, body))
                     IN  /\ store' = (store \ {doc}) \cup {updated}
                         /\ last' = [op |-> "update", id |-> id, body |-> body,
                                     before |-> found, status |-> 200,
                                     result |-> ToJSON(tz, updated)]
    /\ UNCHANGED <<tz, nextId, now, uploadVars>>

(***************************************************************************)
(* DELETE /api/articles/:id                                                *)
(***************************************************************************)
\* With a success answered where nothing was found.
DeleteArticleSilent(id) ==
    /\ IF ~IsObjectId(id)
       THEN /\ last' = [op |-> "delete", id |-> id, before |-> {}, status |-> 500,
                        result |-> [error |-> "Failed to delete article"]]
            /\ UNCHANGED store
       ELSE /\ store' = store \ FindById(id)
            /\ last' = [op |-> "delete", id |-> id, before |-> FindById(id),
                        status |-> 200,
                        result |-> [message |-> "Article deleted successfully"]]
    /\ UNCHANGED <<tz, nextId, now, uploadVars>>

DeleteArticle(id) ==
    /\ IF ~IsObjectId(id)
       THEN /\ last' = [op |-> "delete", id |-> id, before |-> {}, status |-> 500,
                        result |-> [error |-> "Failed to delete article"]]
            /\ UNCHANGED store
       ELSE LET found == FindById(id)
            IN  IF found = {}
                THEN /\ last' = [op |-> "delete", id |-> id, before |-> {},
                                 status |-> 404,
                                 result |-> [error |-> "Article not found"]]
                     /\ UNCHANGED store
                ELSE /\ store' = store \ found
                     /\ last' = [op |-> "delete", id |-> id, before |-> found,
                                 status |-> 200,
                                 result |-> [message |-> "Article deleted successfully"]]
    /\ UNCHANGED <<tz, nextId, now, uploadVars>>

(***************************************************************************)
(* POST /api/upload: multer's upload.single('image') with the fileSize    *)
(* limit, then the handler, which awaits the media host.  Requests        *)
(* interleave at these steps.                                              *)
(***************************************************************************)
fileSize == 5 * 1024 * 1024

\* Never an error, whatever the size: the limit not enforced.
MulterRejectsNever(size) == {FALSE}

\* Whether multer ends the request with LIMIT_FILE_SIZE.  A file of exactly
\* fileSize bytes passes or fails with the version of the multipart parser.
MulterRejects(size) ==
    IF size > fileSize THEN {TRUE}
    ELSE IF size = fileSize THEN {TRUE, FALSE}
    ELSE {FALSE}

IdleUpload == [pc |-> "idle", parts |-> <<>>, status |-> 0, forwarded |-> FALSE]

\* The multipart body arrives and multer parses it: no `image` part leaves
\* req.file undefined; a part over the limit is an error handed to
\* Express, which answers 500 without running the handler.
UploadReceive(r, parts) ==
    /\ uploads[r].pc = "idle"
    /\ \E rejected \in (IF parts = <<>> THEN {FALSE} ELSE MulterRejects(parts[1].size)) :
          uploads' = [uploads EXCEPT ![r] =
              IF rejected
              THEN [pc |-> "done", parts |-> parts, status |-> 500, forwarded |-> FALSE]
              ELSE [pc |-> "handler", parts |-> parts, status |-> 0, forwarded |-> FALSE]]
    /\ UNCHANGED <<articleVars, hosted>>

\* The handler up to its await: 400 without a file, else the call of
\* cloudinary.uploader.upload.
UploadHandler(r) ==
    /\ uploads[r].pc = "handler"
    /\ uploads' = [uploads EXCEPT ![r] =
          IF uploads[r].parts = <<>>
          THEN [@ EXCEPT !.pc = "done", !.status = 400]
          ELSE [@ EXCEPT !.pc = "cloudinary", !.forwarded = TRUE]]
    /\ UNCHANGED <<articleVars, hosted>>

\* The media host answers: the image is stored and its URL returned, or
\* the call fails and the catch block answers 500.
UploadSettle(r) ==
    /\ uploads[r].pc = "cloudinary"
    /\ \/ /\ uploads' = [uploads EXCEPT ![r] = [@ EXCEPT !.pc = "done", !.status = 200]]
          /\ hosted' = hosted + 1
       \/ /\ uploads' = [uploads EXCEPT ![r] = [@ EXCEPT !.pc = "done", !.status = 500]]
          /\ UNCHANGED hosted
    /\ UNCHANGED articleVars

(***************************************************************************)
(* Initial states and inputs.                                              *)
(***************************************************************************)
\* The instant the server starts: 2024-03-10T12:00Z.
StartInstant == DaysFromCivil(2024, 3, 10) * MinutesPerDay + 12 * 60

\* A document written before the `sites` path existed.
LegacyArticle ==
    [_id |-> ObjectId(0), title |-> "Legacy", description |-> "Legacy text",
     image |-> DefaultImage, category |-> DefaultCategory,
     date |-> StartInstant - 30 * MinutesPerDay,
     createdAt |-> StartInstant - 30 * MinutesPerDay]

InitWith(zones, stores) ==
    /\ tz \in zones
    /\ store \in stores
    /\ nextId = 0
    /\ now = StartInstant
    /\ last = [op |-> "none"]
    /\ uploads = [r \in 1..MaxUploads |-> IdleUpload]
    /\ hosted = 0

TimeZones == {-480, 0, 330, 840}

RequestIds == {ObjectId(n) : n \in 0..MaxArticles} \cup {MalformedId}

Queries ==
    {EmptyObject}
        \cup {[site |-> s] : s \in {"rbiomeds", "abc-international", "both", "other"}}

BaseBody == [title |-> "T", description |-> "D"]

SiteLists ==
    {<<>>, <<"abc-international">>, <<"rbiomeds", "abc-international">>, <<"other">>}

SitesBodies == {BaseBody} \cup {BaseBody @@ [sites |-> s] : s \in SiteLists}

FieldBodies ==
    {Pick([title |-> t, description |-> d], keys) :
        t \in {"", "T"}, d \in {"", "D"}, keys \in SUBSET {"title", "description"}}
    \cup {BaseBody @@ [image |-> "https://res.cloudinary.com/demo/a.png",
                       category |-> "News"]}

DateInputs ==
    {<<2024, 3, 5>>, <<2024, 2, 29>>, <<2023, 12, 31>>, <<2025, 1, 1>>,
     <<100, 1, 1>>, <<99, 12, 31>>}

DateBodies == {BaseBody} \cup {BaseBody @@ [date |-> d] : d \in DateInputs}

UploadParts ==
    {<<>>} \cup {<<[fieldname |-> "image", mimetype |-> "image/png", size |-> n]>> :
                    n \in {1024 * 1024, fileSize, fileSize + 1, 6 * 1024 * 1024}}

(***************************************************************************)
(* Specifications: the article routes under request bodies that vary the  *)
(* sites, the text fields or the date, and the upload route.               *)
(***************************************************************************)
InitSites == InitWith({0}, {{}, {LegacyArticle}})

NextSites ==
    \/ \E body \in SitesBodies : CreateArticle(body)
    \/ \E id \in RequestIds, body \in SitesBodies : UpdateArticle(id, body)
    \/ \E id \in RequestIds : DeleteArticle(id)
    \/ \E query \in Queries : ListArticles(query)
    \/ \E query \in Queries : ListArticlesEarlier(query)

SpecSites == InitSites /\ [][NextSites]_vars

InitFields == InitWith({0}, {{}})

NextFields ==
    \/ \E body \in FieldBodies : CreateArticle(body)
    \/ \E id \in RequestIds, body \in FieldBodies : UpdateArticle(id, body)
    \/ \E id \in RequestIds : DeleteArticle(id)
    \/ \E query \in Queries : ListArticles(query)
    \/ \E query \in Queries : ListArticlesEarlier(query)

SpecFields == InitFields /\ [][NextFields]_vars

InitDates == InitWith(TimeZones, {{}})

NextDates ==
    \/ \E body \in DateBodies : CreateArticle(body)
    \/ \E id \in RequestIds, body \in DateBodies : UpdateArticle(id, body)
    \/ \E id \in RequestIds : DeleteArticle(id)
    \/ \E query \in Queries : ListArticles(query)
    \/ \E query \in Queries : ListArticlesEarlier(query)

SpecDates == InitDates /\ [][NextDates]_vars

InitUpload == InitWith({0}, {{}})

NextUpload ==
    \/ \E r \in 1..MaxUploads, parts \in UploadParts : UploadReceive(r, parts)
    \/ \E r \in 1..MaxUploads : UploadHandler(r)
    \/ \E r \in 1..MaxUploads : UploadSettle(r)

SpecUpload == InitUpload /\ [][NextUpload]_vars

(***************************************************************************)
(* The claims.                                                             *)
(***************************************************************************)
SitesOf(doc) == IF Has(doc, "sites") THEN Range(doc.sites) ELSE {}

ResultIds == {last.result[i].id : i \in DOMAIN last.result}

ListedWith(site) ==
    last.op = "list" /\ Has(last.query, "site") /\ last.query.site = site

Updated == last.op = "update" /\ last.status = 200

\* C1: no article is stored with an empty `sites` sequence, whatever the
\* requests were (a body whose `sites` is an empty list included).
C1_SitesNeverStoredEmpty ==
    \A d \in store : Has(d, "sites") => d.sites # <<>>

\* C1 as amended: an article gets an empty `sites` only from a create or an
\* update whose body gives `sites` as an empty list; a body that omits
\* `sites`, or gives a non-empty list, never leaves the article's `sites`
\* empty.
C1_SitesEmptyOnlyWhenGivenEmpty ==
    [][\A d \in store' :
          (Has(d, "sites") /\ d.sites = <<>>) =>
              \/ d \in store
              \/ /\ last'.op \in {"create", "update"}
                 /\ Has(last'.body, "sites")
                 /\ last'.body.sites = <<>>]_vars

C1_Witness ==
    /\ last.op = "update" /\ last.status = 200
    /\ ~Has(last.body, "sites")
    /\ \E b \in last.before : Has(b, "sites") /\ b.sites = <<>>
    /\ \E d \in FindById(last.id) : d.sites # <<>>
    /\ \E d \in store : d._id # last.id /\ Has(d, "sites") /\ d.sites = <<>>

\* C2: after an update of an existing article whose body omits `sites`, the
\* article's stored `sites` is ["rbiomeds"], whatever it was before.
C2_UpdateWithoutSitesResets ==
    (Updated /\ ~Has(last.body, "sites")) =>
        /\ FindById(last.id) # {}
        /\ \A d \in FindById(last.id) : Has(d, "sites") /\ d.sites = <<"rbiomeds">>

C2_Witness ==
    /\ Updated /\ ~Has(last.body, "sites")
    /\ \E b \in last.before :
          Has(b, "sites") /\ b.sites = <<"rbiomeds", "abc-international">>
    /\ \E d \in FindById(last.id) : d.sites = <<"rbiomeds">>

\* C3: a list request with site="both" returns exactly the articles whose
\* `sites` contains both "rbiomeds" and "abc-international", each once.
C3_BothIsIntersection ==
    ListedWith("both") =>
        LET want == {d \in store : {"rbiomeds", "abc-international"} \subseteq SitesOf(d)}
        IN  /\ ResultIds = {d._id : d \in want}
            /\ Len(last.result) = Cardinality(want)

C3_Witness ==
    /\ ListedWith("both")
    /\ Len(last.result) = 1
    /\ \E d \in store : ~Has(d, "sites")
    /\ \E d \in store : SitesOf(d) = {"abc-international"}

\* C4: a list request with site="rbiomeds" returns exactly the articles whose
\* `sites` contains "rbiomeds" and the articles that have no `sites` field.
C4_RbiomedsIncludesLegacy ==
    ListedWith("rbiomeds") =>
        LET want == {d \in store : ~Has(d, "sites") \/ "rbiomeds" \in SitesOf(d)}
        IN  /\ ResultIds = {d._id : d \in want}
            /\ Len(last.result) = Cardinality(want)

C4_Witness ==
    /\ ListedWith("rbiomeds")
    /\ \E d \in store : ~Has(d, "sites") /\ d._id \in ResultIds
    /\ \E d \in store : "rbiomeds" \in SitesOf(d) /\ d._id \in ResultIds
    /\ \E d \in store : Has(d, "sites") /\ "rbiomeds" \notin SitesOf(d)
                          /\ d._id \notin ResultIds

\* C5 as stated: an update or a delete whose id resolves to no article
\* answers 404 and leaves the store as it was.
C5_MissingIdIsNotFound ==
    [][(last'.op \in {"update", "delete"} /\ last'.before = {}) =>
           (last'.status = 404 /\ store' = store)]_vars

\* C5 as amended: such a request leaves the store as it was, and answers 404
\* when its id is an ObjectId, 500 when it is not.
C5_MissingIdFailsAndChangesNothing ==
    [][(last'.op \in {"update", "delete"} /\ last'.before = {}) =>
           /\ store' = store
           /\ last'.status = IF IsObjectId(last'.id) THEN 404 ELSE 500]_vars

\* A delete of an article that an earlier delete removed, beside one that
\* is still stored.
C5_Witness ==
    /\ last.op = "delete" /\ last.status = 404
    /\ last.id = ObjectId(1) /\ nextId >= 1
    /\ FindById(last.id) = {}
    /\ store # {}

Rendered(dateStr) ==
    [month |-> MonthNames[dateStr[2]], day |-> dateStr[3], year |-> dateStr[1]]

WroteDate ==
    /\ last.op \in {"create", "update"}
    /\ last.status \in {200, 201}
    /\ Has(last.body, "date")

StoredById(id) == CHOOSE d \in store : d._id = id

\* C7: a list request returns the articles ordered by `date` descending,
\* those of equal `date` by `createdAt` descending.
C7_ListedByDateThenCreatedAt ==
    last.op = "list" =>
        \A i, j \in DOMAIN last.result :
            i < j =>
                LET a == StoredById(last.result[i].id)
                    b == StoredById(last.result[j].id)
                IN  \/ a.date > b.date
                    \/ a.date = b.date /\ a.createdAt >= b.createdAt

\* The later definition of the route by itself orders its result as C7 says.
C7_LaterRouteListedByDateThenCreatedAt ==
    (last.op = "list" /\ last.route = "later") =>
        \A i, j \in DOMAIN last.result :
            i < j =>
                LET a == StoredById(last.result[i].id)
                    b == StoredById(last.result[j].id)
                IN  \/ a.date > b.date
                    \/ a.date = b.date /\ a.createdAt >= b.createdAt

\* C8: every stored article has a present, non-empty `title` and
\* `description`.
C8_TitleAndDescriptionPresent ==
    \A d \in store :
        /\ Has(d, "title") /\ d.title # ""
        /\ Has(d, "description") /\ d.description # ""

\* C9: an article keeps the `id` and `createdAt` it got at creation through
\* every update, and an update whose body omits `date` leaves `date` as it
\* was.
C9_UpdateKeepsIdCreatedAtDate ==
    /\ \A d \in store : \A n \in 1..MaxArticles :
          d._id = ObjectId(n) => d.createdAt = StartInstant + (n - 1)
    /\ Updated =>
          \E d \in store :
              /\ d._id = last.id
              /\ last.result.id = last.id
              /\ \A b \in last.before :
                    /\ d.createdAt = b.createdAt
                    /\ last.result.createdAt = b.createdAt
                    /\ ~Has(last.body, "date") => d.date = b.date

C9_Witness ==
    /\ Updated /\ ~Has(last.body, "date")
    /\ \E b \in last.before : b.date # b.createdAt /\ b.createdAt = StartInstant
    /\ \E d \in store : d._id = last.id /\ d.date # d.createdAt
                          /\ d.createdAt = StartInstant
    /\ now > StartInstant + 1

TooLarge(r) ==
    /\ uploads[r].pc # "idle"
    /\ uploads[r].parts # <<>>
    /\ uploads[r].parts[1].size > 5242880

\* C10: an upload whose file exceeds 5 MiB is rejected and the media host
\* is never called for it.
C10_LargeUploadNeverForwarded ==
    /\ \A r \in DOMAIN uploads :
          TooLarge(r) =>
              /\ ~uploads[r].forwarded
              /\ uploads[r].pc = "done"
              /\ uploads[r].status >= 400
    /\ hosted <= Cardinality({r \in DOMAIN uploads : ~TooLarge(r) /\ uploads[r].forwarded})

C10_Witness ==
    \E r, q \in DOMAIN uploads :
        /\ TooLarge(r) /\ uploads[r].parts[1].size = 6291456
        /\ uploads[r].pc = "done" /\ uploads[r].status = 500
        /\ uploads[q].forwarded /\ uploads[q].status = 200 /\ hosted = 1

====
